---- MODULE Spec2Model ----
(***************************************************************************)
(* State-machine model of sptrader/spbroker.py (class SharpPointBroker):   *)
(* the order registry, the store callbacks _submit/_reject/_accept/        *)
(* _cancel/_expire/_fill, the notification deque and the cash/position     *)
(* fields.  Exceptions are modelled as a result recorded in `last` with    *)
(* the state the interpreter leaves behind at the raising line.            *)
(***************************************************************************)
EXTENDS Integers, Sequences, FiniteSets, TLC

\* ------------------------------------------------------------------ bounds
MaxOrders == 1      \* orders created by buy/sell in one run
MaxNotifs == 2      \* items held by self.notifs at one time
MaxSize   == 2      \* largest order / fill size drawn
MaxSubmitted == 1   \* orders held by self.submitted at one time

DefaultCash == 10000

Datas      == {"X", "Y"}
Prices     == {100, 110}
CashValues == {DefaultCash, 9000}
OrderSizes == 0..MaxSize
FillSizes  == (0 - MaxSize)..MaxSize
Refs       == 1..(MaxOrders + 1)    \* ids a caller may pass; the last one is never issued

\* ------------------------------------------------- backtrader.order.Order
Created   == "Created"
Submitted == "Submitted"
Accepted  == "Accepted"
Partial   == "Partial"
Completed == "Completed"
Cancelled == "Cancelled"
Expired   == "Expired"
Margin    == "Margin"
Rejected  == "Rejected"

Terminal == {Completed, Cancelled, Rejected, Expired}

VARIABLES
    orders,        \* self.orders: ref -> order (OrderedDict)
    nextref,       \* Order.refbasis: next reference id handed out
    positions,     \* self.positions: data -> Position (defaultdict)
    cash,          \* self.cash
    startingcash,  \* self.startingcash
    notifs,        \* self.notifs (deque)
    submitted,     \* self.submitted (deque)
    checksubmit,   \* self.p.checksubmit
    placed,        \* refs handed to self.o.order_create
    cancelreqs,    \* refs handed to self.o.order_cancel
    last           \* the call made last and how it ended

vars == <<orders, nextref, positions, cash, startingcash, notifs, submitted,
          checksubmit, placed, cancelreqs, last>>

\* self.notifs.append(None)
NoneMarker == [ref |-> 0, status |-> "None", exsize |-> 0, remsize |-> 0]

\* order.clone(): a copy of the order taken at the time of the call
clone(o) == [ref |-> o.ref, status |-> o.status, exsize |-> o.exsize, remsize |-> o.remsize]

\* the item field of `last` when the call removed nothing from self.notifs
NoItem == [ref |-> 0 - 1, status |-> "-", exsize |-> 0, remsize |-> 0]

NoRet == "-"

\* the record of a call: its name, the order id passed, the exception it ended
\* with ("none" when it returned), what it returned, and for _fill its size and price
Call(op, ref, err, ret) ==
    [op |-> op, ref |-> ref, err |-> err, ret |-> ret, item |-> NoItem, size |-> 0, price |-> 0]

\* room left in self.notifs for one more item
CanAppend == Len(notifs) < MaxNotifs

Registered == DOMAIN orders

\* Position(): size 0, price 0.0
NewPosition == [size |-> 0, price |-> 0]

Init ==
    /\ orders = <<>>
    /\ nextref = 1
    /\ positions = [d \in Datas |-> NewPosition]
    /\ cash = DefaultCash
    /\ startingcash = DefaultCash
    /\ notifs = <<>>
    /\ submitted = <<>>
    /\ checksubmit \in BOOLEAN
    /\ placed = {}
    /\ cancelreqs = {}
    /\ last = Call("init", 0, "none", NoRet)

\* BuyOrder(...) / SellOrder(...): size is stored signed, nothing executed yet
NewOrder(ref, isbuy, data, size) ==
    [ref |-> ref, status |-> Created, isbuy |-> isbuy, data |-> data,
     size |-> IF isbuy THEN size ELSE 0 - size,
     exsize |-> 0,
     remsize |-> IF isbuy THEN size ELSE 0 - size,
     opened |-> 0, closed |-> 0, pnl |-> 0]

\* self.orders[order.ref] = order
Register(o) == [r \in (DOMAIN orders) \cup {o.ref} |-> IF r = o.ref THEN o ELSE orders[r]]

\* self.notifs.append(order.clone())
notify(o) == notifs' = Append(notifs, clone(o))

\* variant: the cash the order needs is set aside when the order is created
CreateOrderReservesCash(op, isbuy, data, size) ==
    /\ nextref <= MaxOrders
    /\ orders' = Register(NewOrder(nextref, isbuy, data, size))
    /\ nextref' = nextref + 1
    /\ placed' = placed \cup {nextref}
    /\ cash' = cash - size * 100
    /\ last' = Call(op, nextref, "none", NoRet)
    /\ UNCHANGED <<positions, startingcash, notifs, submitted, checksubmit, cancelreqs>>

\* variant: self.orders[order.tradeid] = order, the tradeid being 0
CreateOrderKeyedByTradeid(op, isbuy, data, size) ==
    /\ nextref <= MaxOrders
    /\ orders' = [r \in (DOMAIN orders) \cup {0} |->
                      IF r = 0 THEN NewOrder(nextref, isbuy, data, size) ELSE orders[r]]
    /\ nextref' = nextref + 1
    /\ placed' = placed \cup {nextref}
    /\ last' = Call(op, nextref, "none", NoRet)
    /\ UNCHANGED <<positions, cash, startingcash, notifs, submitted, checksubmit, cancelreqs>>

\* buy / sell: create the order, register it, hand it to the store
CreateOrder(op, isbuy, data, size) ==
    /\ nextref <= MaxOrders
    /\ orders' = Register(NewOrder(nextref, isbuy, data, size))
    /\ nextref' = nextref + 1
    /\ placed' = placed \cup {nextref}
    /\ last' = Call(op, nextref, "none", NoRet)
    /\ UNCHANGED <<positions, cash, startingcash, notifs, submitted, checksubmit, cancelreqs>>

buy == \E d \in Datas, s \in OrderSizes : CreateOrder("buy", TRUE, d, s)

sell == \E d \in Datas, s \in OrderSizes : CreateOrder("sell", FALSE, d, s)

\* what a call does once it raises: nothing but the exception reaches the caller
Raise(op, ref, err) ==
    /\ last' = Call(op, ref, err, NoRet)
    /\ UNCHANGED <<orders, nextref, positions, cash, startingcash, notifs, submitted, checksubmit,
                   placed, cancelreqs>>

\* variant: the lookup is made with .get() and a missing order is skipped
LookupMissIgnored(op, oref) == Raise(op, oref, "none")

\* self.orders[oref] with oref absent from the OrderedDict: KeyError
LookupMiss(op, oref) == Raise(op, oref, "KeyError")

\* order.submit(broker)
order_submit(o) == [o EXCEPT !.status = Submitted]

\* order.accept()
order_accept(o) == [o EXCEPT !.status = Accepted]

\* order.reject(broker): returns False and leaves an already rejected order alone
order_reject(o) == IF o.status = Rejected THEN o ELSE [o EXCEPT !.status = Rejected]

\* order.cancel(...) when the call is accepted
order_cancel(o) == [o EXCEPT !.status = Cancelled]

\* order.expire(...) when the call is accepted and the order does expire
order_expire(o) == [o EXCEPT !.status = Expired]

\* order.partial() / order.completed()
order_partial(o) == [o EXCEPT !.status = Partial]

order_completed(o) == [o EXCEPT !.status = Completed]

\* variant: self.notify(order) is called before the order is mutated
TransitionNotifyFirst(op, oref, o2) ==
    /\ CanAppend
    /\ orders' = [orders EXCEPT ![oref] = o2]
    /\ notify(orders[oref])
    /\ last' = Call(op, oref, "none", NoRet)
    /\ UNCHANGED <<nextref, positions, cash, startingcash, submitted, checksubmit, placed, cancelreqs>>

\* variant: self.notifs.append(order), the live order and not a clone of it,
\* so that the queued entries of the order follow its later mutations
TransitionAliased(op, oref, o2) ==
    /\ CanAppend
    /\ orders' = [orders EXCEPT ![oref] = o2]
    /\ notifs' = Append([i \in 1..Len(notifs) |->
                            IF notifs[i].ref = oref THEN clone(o2) ELSE notifs[i]],
                        clone(o2))
    /\ last' = Call(op, oref, "none", NoRet)
    /\ UNCHANGED <<nextref, positions, cash, startingcash, submitted, checksubmit,
                   placed, cancelreqs>>

\* the tail shared by _submit/_reject/_accept/_cancel/_expire:
\* the live order is mutated in place, then self.notify(order)
Transition(op, oref, o2) ==
    /\ CanAppend
    /\ orders' = [orders EXCEPT ![oref] = o2]
    /\ notify(o2)
    /\ last' = Call(op, oref, "none", NoRet)
    /\ UNCHANGED <<nextref, positions, cash, startingcash, submitted, checksubmit, placed, cancelreqs>>

_submit ==
    \E oref \in Refs :
        IF oref \notin DOMAIN orders THEN LookupMiss("_submit", oref)
        ELSE Transition("_submit", oref, order_submit(orders[oref]))

_reject ==
    \E oref \in Refs :
        IF oref \notin DOMAIN orders THEN LookupMiss("_reject", oref)
        ELSE Transition("_reject", oref, order_reject(orders[oref]))

_accept ==
    \E oref \in Refs :
        IF oref \notin DOMAIN orders THEN LookupMiss("_accept", oref)
        ELSE Transition("_accept", oref, order_accept(orders[oref]))

\* outcomes of order.cancel(self): the Order class is backtrader's, and the
\* call passes one positional argument; a cancel() that takes none raises
CancelOutcomes == {"cancelled", "TypeError"}

_cancel ==
    \E oref \in Refs, out \in CancelOutcomes :
        IF oref \notin DOMAIN orders THEN LookupMiss("_cancel", oref)
        ELSE IF out = "TypeError" THEN Raise("_cancel", oref, "TypeError")
        ELSE Transition("_cancel", oref, order_cancel(orders[oref]))

\* outcomes of order.expire(self): as for cancel, and an expire() that decides
\* the order has not lapsed returns False and leaves the status alone
ExpireOutcomes == {"expired", "kept", "TypeError"}

_expire ==
    \E oref \in Refs, out \in ExpireOutcomes :
        IF oref \notin DOMAIN orders THEN LookupMiss("_expire", oref)
        ELSE IF out = "TypeError" THEN Raise("_expire", oref, "TypeError")
        ELSE IF out = "kept" THEN Transition("_expire", oref, orders[oref])
        ELSE Transition("_expire", oref, order_expire(orders[oref]))

\* variant: def getposition(self, data, clone=True)
getposition_with_clone == TRUE

\* def getposition(self, data): the signature has no `clone` parameter, so the
\* call self.getposition(data, clone=False) made by _fill raises TypeError
getposition_takes_clone == FALSE

\* Position.update(size, price): the new size and average price of the position
\* and the opened and closed parts of the fill
PositionUpdate(pos, size, price) ==
    LET oldsize == pos.size
        newsize == pos.size + size
    IN  IF newsize = 0
        THEN [size |-> 0, price |-> 0, opened |-> 0, closed |-> size]
        ELSE IF oldsize = 0
        THEN [size |-> newsize, price |-> price, opened |-> size, closed |-> 0]
        ELSE IF (oldsize > 0) = (size > 0)
        THEN [size |-> newsize,
              price |-> (pos.price * oldsize + size * price) \div newsize,
              opened |-> size, closed |-> 0]
        ELSE IF (oldsize > 0) = (newsize > 0)
        THEN [size |-> newsize, price |-> pos.price, opened |-> 0, closed |-> size]
        ELSE [size |-> newsize, price |-> price, opened |-> newsize, closed |-> 0 - oldsize]

\* order.execute(dt, size, price, ...): nothing for a zero size, else the
\* executed size grows by size and the remaining size shrinks by it
order_execute(o, size) ==
    IF size = 0 THEN o
    ELSE [o EXCEPT !.exsize = o.exsize + size, !.remsize = o.remsize - size]

\* margin = pnl = 0.0: the profit and loss _fill hands to order.execute
FillPnl == 0

\* the closed and opened sizes and the pnl that order.execute(...) records
\* with the fill (nothing for a zero size)
order_record(o, size, closed, opened, pnl) ==
    IF size = 0 THEN o
    ELSE [o EXCEPT !.closed = closed, !.opened = opened, !.pnl = pnl]

\* if order.executed.remsize: order.partial() else: order.completed()
FillStatus(o) == IF o.remsize # 0 THEN order_partial(o) ELSE order_completed(o)

\* _fill from pos.update(...) to self.notify(order)
FillBody(oref, size, price) ==
    LET o  == orders[oref]
        u  == PositionUpdate(positions[o.data], size, price)
        o2 == FillStatus(order_record(order_execute(o, size), size, u.closed, u.opened, FillPnl))
    IN  /\ CanAppend
        /\ positions' = [positions EXCEPT ![o.data] = [size |-> u.size, price |-> u.price]]
        /\ orders' = [orders EXCEPT ![oref] = o2]
        /\ notify(o2)
        /\ last' = [Call("_fill", oref, "none", NoRet) EXCEPT !.size = size, !.price = price]
        /\ UNCHANGED <<nextref, cash, startingcash, submitted, checksubmit, placed, cancelreqs>>

\* _fill up to the call self.getposition(data, clone=False), which raises
FillRaise(oref, size, price) ==
    /\ last' = [Call("_fill", oref, "TypeError", NoRet) EXCEPT !.size = size, !.price = price]
    /\ UNCHANGED <<orders, nextref, positions, cash, startingcash, notifs, submitted, checksubmit,
                   placed, cancelreqs>>

_fill ==
    \E oref \in Refs, size \in FillSizes, price \in Prices :
        IF oref \notin DOMAIN orders THEN LookupMiss("_fill", oref)
        ELSE IF ~getposition_takes_clone THEN FillRaise(oref, size, price)
        ELSE FillBody(oref, size, price)

\* orderstatus(order): o = self.orders[order.ref]; return o.status
orderstatus ==
    \E ref \in Refs :
        IF ref \notin DOMAIN orders THEN LookupMiss("orderstatus", ref)
        ELSE /\ last' = Call("orderstatus", ref, "none", orders[ref].status)
             /\ UNCHANGED <<orders, nextref, positions, cash, startingcash, notifs,
                            submitted, checksubmit, placed, cancelreqs>>

\* submit(order), the order being one the broker created.  With checksubmit:
\* order.submit(), self.submitted.append(order), then self.orders.append(order)
\* raises AttributeError (an OrderedDict has no append) before self.notify.
\* Without: self.submit_accept is not defined, AttributeError.
submit ==
    \E ref \in DOMAIN orders :
        IF checksubmit
        THEN /\ Len(submitted) < MaxSubmitted
             /\ orders' = [orders EXCEPT ![ref] = order_submit(orders[ref])]
             /\ submitted' = Append(submitted, ref)
             /\ last' = Call("submit", ref, "AttributeError", NoRet)
             /\ UNCHANGED <<nextref, positions, cash, startingcash, notifs, checksubmit,
                            placed, cancelreqs>>
        ELSE Raise("submit", ref, "AttributeError")

\* self.o.order_cancel(order): the store receives the cancellation request
store_order_cancel(ref) == cancelreqs' = cancelreqs \cup {ref}

\* variant: cancel without the test for an already cancelled order
cancel_always_delegates ==
    \E ref \in Refs :
        IF ref \notin DOMAIN orders THEN LookupMiss("cancel", ref)
        ELSE /\ store_order_cancel(ref)
             /\ last' = Call("cancel", ref, "none", "order_cancel")
             /\ UNCHANGED <<orders, nextref, positions, cash, startingcash, notifs,
                            submitted, checksubmit, placed>>

\* cancel(order)
cancel ==
    \E ref \in Refs :
        IF ref \notin DOMAIN orders THEN LookupMiss("cancel", ref)
        ELSE /\ IF orders[ref].status = Cancelled
                THEN UNCHANGED cancelreqs
                ELSE store_order_cancel(ref)
             /\ last' = Call("cancel", ref, "none",
                             IF orders[ref].status = Cancelled THEN "None" ELSE "order_cancel")
             /\ UNCHANGED <<orders, nextref, positions, cash, startingcash, notifs,
                            submitted, checksubmit, placed>>

\* variant: self.notifs.pop() in place of popleft()
get_notification_pop ==
    IF notifs = <<>>
    THEN /\ last' = Call("get_notification", 0, "none", "None")
         /\ UNCHANGED <<orders, nextref, positions, cash, startingcash, notifs,
                        submitted, checksubmit, placed, cancelreqs>>
    ELSE /\ notifs' = SubSeq(notifs, 1, Len(notifs) - 1)
         /\ last' = [Call("get_notification", 0, "none",
                          IF notifs[Len(notifs)] = NoneMarker THEN "None" ELSE "notification")
                        EXCEPT !.item = notifs[Len(notifs)]]
         /\ UNCHANGED <<orders, nextref, positions, cash, startingcash,
                        submitted, checksubmit, placed, cancelreqs>>

\* variant: popleft() without the test for an empty deque
get_notification_unchecked ==
    IF notifs = <<>>
    THEN Raise("get_notification", 0, "IndexError")
    ELSE /\ notifs' = Tail(notifs)
         /\ last' = [Call("get_notification", 0, "none",
                          IF Head(notifs) = NoneMarker THEN "None" ELSE "notification")
                        EXCEPT !.item = Head(notifs)]
         /\ UNCHANGED <<orders, nextref, positions, cash, startingcash,
                        submitted, checksubmit, placed, cancelreqs>>

\* variant: a boundary marker at the head is dropped and the item behind it returned
get_notification_skips_marker ==
    IF notifs = <<>>
    THEN /\ last' = Call("get_notification", 0, "none", "None")
         /\ UNCHANGED <<orders, nextref, positions, cash, startingcash, notifs,
                        submitted, checksubmit, placed, cancelreqs>>
    ELSE LET q == IF Head(notifs) = NoneMarker /\ Len(notifs) > 1 THEN Tail(notifs) ELSE notifs
         IN  /\ notifs' = Tail(q)
             /\ last' = [Call("get_notification", 0, "none",
                              IF Head(q) = NoneMarker THEN "None" ELSE "notification")
                            EXCEPT !.item = Head(q)]
             /\ UNCHANGED <<orders, nextref, positions, cash, startingcash,
                            submitted, checksubmit, placed, cancelreqs>>

\* get_notification(): the definition at the end of the class replaces the earlier one
get_notification ==
    IF notifs = <<>>
    THEN /\ last' = Call("get_notification", 0, "none", "None")
         /\ UNCHANGED <<orders, nextref, positions, cash, startingcash, notifs,
                        submitted, checksubmit, placed, cancelreqs>>
    ELSE /\ notifs' = Tail(notifs)
         /\ last' = [Call("get_notification", 0, "none",
                          IF Head(notifs) = NoneMarker THEN "None" ELSE "notification")
                        EXCEPT !.item = Head(notifs)]
         /\ UNCHANGED <<orders, nextref, positions, cash, startingcash,
                        submitted, checksubmit, placed, cancelreqs>>

\* variant: self.notifs.appendleft(None)
next_appendleft ==
    /\ CanAppend
    /\ notifs' = <<NoneMarker>> \o notifs
    /\ last' = Call("next", 0, "none", NoRet)
    /\ UNCHANGED <<orders, nextref, positions, cash, startingcash,
                   submitted, checksubmit, placed, cancelreqs>>

\* next(): self.notifs.append(None)
next ==
    /\ CanAppend
    /\ notifs' = Append(notifs, NoneMarker)
    /\ last' = Call("next", 0, "none", NoRet)
    /\ UNCHANGED <<orders, nextref, positions, cash, startingcash,
                   submitted, checksubmit, placed, cancelreqs>>

\* set_cash(cash)
set_cash ==
    \E c \in CashValues :
        /\ cash' = c
        /\ startingcash' = c
        /\ last' = Call("set_cash", 0, "none", NoRet)
        /\ UNCHANGED <<orders, nextref, positions, notifs, submitted, checksubmit, placed,
                       cancelreqs>>

Next ==
    \/ buy \/ sell
    \/ _submit \/ _reject \/ _accept \/ _cancel \/ _expire \/ _fill
    \/ orderstatus \/ cancel \/ submit
    \/ get_notification \/ next
    \/ set_cash

Spec == Init /\ [][Next]_vars
\* ------------------------------------------------------------------ claims

\* the callbacks of the store
TransitionOps == {"_submit", "_accept", "_reject", "_cancel", "_expire", "_fill"}

\* every call that looks the order up by its reference id
LookupOps == TransitionOps \cup {"orderstatus", "cancel"}

\* the step is a callback made on the registered order r
CallbackOn(r) == last'.op \in TransitionOps /\ last'.ref = r /\ r \in DOMAIN orders

\* everything but `last` is left as it was
StateUnchanged ==
    UNCHANGED <<orders, nextref, positions, cash, startingcash, notifs, submitted, checksubmit,
                placed, cancelreqs>>

\* C1: a callback on a registered order whose status is terminal fails with
\* InvalidTransition and leaves the status as it was, so that a terminal
\* status never changes again.
C1_TerminalCallFails ==
    [][\A r \in DOMAIN orders :
          (CallbackOn(r) /\ orders[r].status \in Terminal)
              => (last'.err = "InvalidTransition" /\ orders'[r].status = orders[r].status)]_vars

\* C2: a callback that returns appends exactly one notification, the snapshot
\* of the order as the callback left it; a callback that raises changes no
\* order and appends nothing.
C2_OneNotificationPerTransition ==
    [][\A r \in DOMAIN orders :
          CallbackOn(r) =>
              IF last'.err = "none"
              THEN notifs' = Append(notifs, clone(orders'[r]))
              ELSE notifs' = notifs /\ orders' = orders]_vars

C2_Witness ==
    /\ last.op = "_accept" /\ last.err = "none"
    /\ notifs # <<>>
    /\ notifs[Len(notifs)] = clone(orders[last.ref])
    /\ orders[last.ref].status = Accepted

\* the executed size lies between 0 and the requested size, on the order's side
ExecutedWithinRequested(o) ==
    IF o.isbuy THEN 0 <= o.exsize /\ o.exsize <= o.size
    ELSE o.size <= o.exsize /\ o.exsize <= 0

\* the executed size has not shrunk
ExecutedNotShrunk(o, o2) ==
    IF o.isbuy THEN o.exsize <= o2.exsize ELSE o2.exsize <= o.exsize

\* C3: under any sequence of _fill calls the executed size of an order never
\* decreases and never exceeds the requested size.
C3_ExecutedSizeBounded ==
    /\ [](\A r \in DOMAIN orders : ExecutedWithinRequested(orders[r]))
    /\ [][\A r \in DOMAIN orders : ExecutedNotShrunk(orders[r], orders'[r])]_vars

C3_Witness ==
    /\ last.op = "_fill" /\ last.ref \in DOMAIN orders
    /\ last.size # 0
    /\ orders[last.ref].size # 0
    /\ ExecutedWithinRequested(orders[last.ref])

\* C4: after a _fill on a registered order the status is Completed exactly
\* when the executed size equals the requested size, and Partial when some
\* size remains.
C4_FillSetsStatus ==
    [][\A r \in DOMAIN orders :
          (CallbackOn(r) /\ last'.op = "_fill") =>
              /\ (orders'[r].status = Completed) <=> (orders'[r].exsize = orders'[r].size)
              /\ (orders'[r].remsize # 0) => (orders'[r].status = Partial)]_vars

\* C5: a fill of signed size s at price p moves the cash by -s*p (the code
\* passes a commission of 0.0): a buy lowers it, a sell raises it.
C5_FillMovesCash ==
    [][\A r \in DOMAIN orders :
          (CallbackOn(r) /\ last'.op = "_fill") =>
              cash' = cash - last'.size * last'.price]_vars

\* C6: a fill adds its signed size to the position of the order's instrument
\* and leaves the positions of the other instruments alone.
C6_FillMovesPosition ==
    [][\A r \in DOMAIN orders :
          (CallbackOn(r) /\ last'.op = "_fill") =>
              /\ positions'[orders[r].data].size
                     = positions[orders[r].data].size + last'.size
              /\ \A d \in Datas \ {orders[r].data} : positions'[d] = positions[d]]_vars

\* C7: a callback, orderstatus or cancel given a reference id that is not in
\* the registry raises the lookup error and changes nothing.
C7_UnknownOrderFails ==
    [][(last'.op \in LookupOps /\ last'.ref \notin DOMAIN orders)
          => (last'.err = "KeyError" /\ StateUnchanged)]_vars

C7_Witness ==
    /\ last.op = "cancel" /\ last.err = "KeyError"
    /\ last.ref \notin DOMAIN orders
    /\ DOMAIN orders # {}

\* C8: the queue is first in, first out: get_notification on a non-empty queue
\* returns its head and leaves its tail, and every other step either leaves
\* the queue alone or adds one item at its back.
C8_Fifo ==
    [][IF last'.op = "get_notification"
       THEN notifs # <<>> => (last'.item = Head(notifs) /\ notifs' = Tail(notifs))
       ELSE \/ notifs' = notifs
            \/ /\ Len(notifs') = Len(notifs) + 1
               /\ SubSeq(notifs', 1, Len(notifs)) = notifs]_vars

C8_Witness ==
    /\ last.op = "get_notification" /\ last.ret = "notification"
    /\ last.item.status = Submitted
    /\ notifs # <<>>
    /\ Head(notifs).status = Accepted

\* C9: get_notification on an empty queue returns None, raises nothing and
\* changes no state.
C9_EmptyQueueReturnsNone ==
    [][(last'.op = "get_notification" /\ notifs = <<>>)
          => (last'.ret = "None" /\ last'.err = "none" /\ last'.item = NoItem
              /\ StateUnchanged)]_vars

C9_Witness ==
    /\ last.op = "get_notification" /\ last.ret = "None" /\ last.item = NoItem
    /\ notifs = <<>>
    /\ DOMAIN orders # {}

\* C10: cancel on a registered order that is already Cancelled returns at once:
\* no request reaches the store and nothing else changes.
C10_CancelOfCancelledIsNoOp ==
    [][\A r \in DOMAIN orders :
          (last'.op = "cancel" /\ last'.ref = r /\ orders[r].status = Cancelled)
              => (last'.ret = "None" /\ last'.err = "none" /\ StateUnchanged)]_vars

C10_Witness ==
    /\ last.op = "cancel" /\ last.ret = "None" /\ last.err = "none"
    /\ last.ref \in DOMAIN orders
    /\ orders[last.ref].status = Cancelled
    /\ last.ref \notin cancelreqs

\* C11: cancel on a registered order in any terminal status sends no
\* cancellation request to the store, raises nothing and changes no order.
C11_CancelOfTerminalIsNoOp ==
    [][\A r \in DOMAIN orders :
          (last'.op = "cancel" /\ last'.ref = r /\ orders[r].status \in Terminal)
              => (last'.err = "none" /\ cancelreqs' = cancelreqs /\ orders' = orders)]_vars

\* the calls that may change the cash or a position
CashOps == {"_fill", "set_cash"}

\* C12: only _fill and set_cash change the cash, the starting cash or a position.
C12_CashAndPositionsFrame ==
    [][last'.op \notin CashOps => UNCHANGED <<cash, startingcash, positions>>]_vars

C12_Witness ==
    /\ last.op = "_accept" /\ last.err = "none"
    /\ cash = 9000 /\ startingcash = 9000
    /\ \A d \in Datas : positions[d] = NewPosition

\* C13: no order of size 0 is ever in the registry, in the notification queue
\* or with the store.
C13_NoZeroSizeOrder ==
    /\ \A r \in DOMAIN orders : orders[r].size # 0
    /\ \A r \in placed : r \in DOMAIN orders => orders[r].size # 0

\* the realized profit of the part of the position a fill closes
ClosedPnl(pos, closed, price) == (0 - closed) * (price - pos.price)

\* C14: a fill is netted against the position: the position becomes the netted
\* one, and the order records the closed part, the opened part and the realized
\* profit of the closed part (a fill that reverses the position closes all of it
\* and opens the remainder at the fill price).
C14_FillIsNetted ==
    [][\A r \in DOMAIN orders :
          (CallbackOn(r) /\ last'.op = "_fill") =>
              LET d == orders[r].data
                  u == PositionUpdate(positions[d], last'.size, last'.price)
              IN  /\ positions'[d] = [size |-> u.size, price |-> u.price]
                  /\ orders'[r].closed = u.closed
                  /\ orders'[r].opened = u.opened
                  /\ orders'[r].pnl = ClosedPnl(positions[d], u.closed, last'.price)]_vars

\* C15: submit of a registered order returns without an error; with
\* checksubmit the order is Submitted, queued in self.submitted and notified once.
C15_SubmitReturnsOrder ==
    [][\A r \in DOMAIN orders :
          (last'.op = "submit" /\ last'.ref = r) =>
              /\ last'.err = "none"
              /\ checksubmit =>
                     /\ orders'[r].status = Submitted
                     /\ submitted' = Append(submitted, r)
                     /\ notifs' = Append(notifs, clone(orders'[r]))]_vars

\* C16: a callback that fails still appends exactly one notification.
C16_FailedTransitionNotifies ==
    [][(last'.op \in TransitionOps /\ last'.err # "none")
          => Len(notifs') = Len(notifs) + 1]_vars

\* the places of the boundary markers in a queue
MarkerPositions(q) == {i \in 1..Len(q) : q[i] = NoneMarker}

C18_SnapshotsImmutable ==
    [][orders' # orders =>
          \A i \in 1..Len(notifs) : i <= Len(notifs') /\ notifs'[i] = notifs[i]]_vars

C18_Witness ==
    /\ last.op = "_accept" /\ last.err = "none"
    /\ Len(notifs) = 2
    /\ notifs[1].ref = last.ref /\ notifs[1].status = Submitted
    /\ orders[last.ref].status = Accepted

\* the step is a buy or a sell
CreateStep == last'.op \in {"buy", "sell"}

C20_NoneMeansEmptyOrMarker ==
    [][last'.op = "get_notification" =>
          /\ (last'.ret = "None") <=> (notifs = <<>> \/ Head(notifs) = NoneMarker)
          /\ notifs = <<>> => notifs' = <<>>
          /\ (notifs # <<>> /\ Head(notifs) = NoneMarker) => notifs' = Tail(notifs)]_vars

C20_Witness ==
    /\ last.op = "get_notification" /\ last.ret = "None" /\ last.item = NoneMarker
    /\ notifs # <<>>
    /\ Head(notifs) # NoneMarker
====
